---- MODULE Spec2Model ----
(***************************************************************************)
(* Kilominx solver: the geometry generators (the full subdivided model and *)
(* the simple 12-face model), their validators and solved-state colour     *)
(* tables, as a state machine.                                             *)
(*                                                                         *)
(* Numbers: a TypeScript `number` is a 64-bit float; here a coordinate is  *)
(* an integer count of thousandths (fixed point, Unit = 1.0).  Every       *)
(* arithmetic helper below does what the source expression does, with      *)
(* products and quotients rounded to the nearest thousandth and square     *)
(* roots rounded down.  Face ids and array indices are 0-based as in the   *)
(* source; a TLA+ sequence holds array element k at position k+1.          *)
(***************************************************************************)
EXTENDS Integers, Sequences, FiniteSets, TLC

\* ---------------------------------------------------------------- bounds

\* How many createKilominxGeometry() results a behaviour keeps.
MaxCalls == 2

\* validateGeometry is tried on inputs whose length is within MaxSlack of 62.
MaxSlack == 1

\* ------------------------------------------------------ numeric constants

\* 1.0 in fixed point.
Unit == 1000

\* const PHI = (1 + Math.sqrt(5)) / 2
PHI == 1618

\* const PHI_INV = 1 / PHI
PHI_INV == 618

\* const SCALE = 2.0
SCALE == 2000

\* const faceRadius = 0.8
faceRadius == 800

\* const threshold = 1.5
threshold == 1500

\* the 12 major faces kept by vertices.slice(0, 12); the simple model's loop bound
MajorCount == 12

\* the 5 cells of a ring: for (let i = 0; i < 5; i++)
RingSize == 5

\* the 5 vertices of a pentagon: for (let i = 0; i < 5; i++)
PentagonSize == 5

\* if (face.vertices.length !== 5)
ExpectedVertices == 5

\* const isCornerFace = majorIndex < 8
CornerCount == 8

\* if (faces.length !== 62)
ExpectedFaces == 62

\* return geometry.faces.length === 12
SimpleExpectedFaces == 12

\* the simple model's loop: for (let i = 0; i < 12; i++)
SimpleFaceCount == 12

\* The null / undefined of a missing object-valued property or result (a value no
\* vector, geometry or verdict equals).
NULL == [null |-> TRUE]

\* The null / undefined of a missing array-valued property (no array of vectors
\* equals it).
NullArray == <<NULL>>

\* ----------------------------------------------------------- FaceColor

WHITE == "#FFFFFF"
YELLOW == "#FFFF00"
DARK_BLUE == "#0000FF"
LIGHT_BLUE == "#87CEEB"
RED == "#FF0000"
PINK == "#FFC0CB"
ORANGE == "#FFA500"
LIGHT_GREEN == "#90EE90"
DARK_GREEN == "#006400"
PURPLE == "#800080"
GREY == "#808080"
DARK_BROWN == "#8B4513"

\* ------------------------------------------------------ fixed-point helpers

Abs(n) == IF n < 0 THEN -n ELSE n

\* n / d rounded to the nearest integer, symmetric about 0 (d > 0).
RoundDiv(n, d) ==
    IF n >= 0 THEN (2 * n + d) \div (2 * d) ELSE -((2 * (-n) + d) \div (2 * d))

\* a * b on fixed-point numbers.
FMul(a, b) == RoundDiv(a * b, Unit)

\* a / b on fixed-point numbers (b # 0).
FDiv(a, b) == IF b > 0 THEN RoundDiv(a * Unit, b) ELSE RoundDiv(-(a * Unit), -b)

RECURSIVE SqrtSearch(_, _, _)
SqrtSearch(n, lo, hi) ==
    IF lo >= hi THEN lo
    ELSE LET mid == (lo + hi + 1) \div 2
         IN  IF mid * mid <= n THEN SqrtSearch(n, mid, hi)
             ELSE SqrtSearch(n, lo, mid - 1)

\* Math.sqrt of a product of two fixed-point numbers (n is in millionths):
\* the largest r with r * r <= n, in thousandths.
Sqrt(n) == SqrtSearch(n, 0, IF n < 46340 THEN n ELSE 46340)

\* Math.cos((i * 2 * Math.PI) / 5) and Math.sin(...) for i = 0..4.
Cos5(i) == <<1000, 309, -809, -809, 309>>[i + 1]

Sin5(i) == <<0, 951, 588, -588, -951>>[i + 1]

\* ------------------------------------------------------------ vector utilities

createVector3(x, y, z) == [x |-> x, y |-> y, z |-> z]

\* Mutant of normalizeVector: the vector is returned as it is, not divided by its
\* length.
normalizeVectorUnscaled(v) == [x |-> v.x, y |-> v.y, z |-> v.z]

\* Mutant of normalizeVector: a vector of length 0 is given the direction of the z axis.
normalizeVectorAxisFallback(v) ==
    LET length == Sqrt(v.x * v.x + v.y * v.y + v.z * v.z)
    IN  IF length = 0 THEN [x |-> 0, y |-> 0, z |-> Unit]
        ELSE [x |-> FDiv(v.x, length),
              y |-> FDiv(v.y, length),
              z |-> FDiv(v.z, length)]

normalizeVector(v) ==
    LET length == Sqrt(v.x * v.x + v.y * v.y + v.z * v.z)
    IN  IF length = 0 THEN [x |-> 0, y |-> 0, z |-> 0]
        ELSE [x |-> FDiv(v.x, length),
              y |-> FDiv(v.y, length),
              z |-> FDiv(v.z, length)]

scaleVector(v, scale) ==
    [x |-> FMul(v.x, scale), y |-> FMul(v.y, scale), z |-> FMul(v.z, scale)]

addVectors(a, b) == [x |-> a.x + b.x, y |-> a.y + b.y, z |-> a.z + b.z]

crossProduct(a, b) ==
    [x |-> FMul(a.y, b.z) - FMul(a.z, b.y),
     y |-> FMul(a.z, b.x) - FMul(a.x, b.z),
     z |-> FMul(a.x, b.y) - FMul(a.y, b.x)]

\* ------------------------------------------------------- dodecahedron base

cubeVertices ==
    << <<Unit, Unit, Unit>>, <<Unit, Unit, -Unit>>,
       <<Unit, -Unit, Unit>>, <<Unit, -Unit, -Unit>>,
       <<-Unit, Unit, Unit>>, <<-Unit, Unit, -Unit>>,
       <<-Unit, -Unit, Unit>>, <<-Unit, -Unit, -Unit>> >>

axisVertices ==
    << <<0, PHI, PHI_INV>>, <<0, PHI, -PHI_INV>>,
       <<0, -PHI, PHI_INV>>, <<0, -PHI, -PHI_INV>>,
       <<PHI_INV, 0, PHI>>, <<PHI_INV, 0, -PHI>>,
       <<-PHI_INV, 0, PHI>>, <<-PHI_INV, 0, -PHI>>,
       <<PHI, PHI_INV, 0>>, <<PHI, -PHI_INV, 0>>,
       <<-PHI, PHI_INV, 0>>, <<-PHI, -PHI_INV, 0>> >>

\* One forEach body: createVector3(x * SCALE, y * SCALE, z * SCALE).
ScaledVertex(t) == createVector3(FMul(t[1], SCALE), FMul(t[2], SCALE), FMul(t[3], SCALE))

\* The cube vertices pushed first, then the axis vertices, then slice(0, 12).
generateDodecahedronVertices ==
    LET all == [k \in 1..Len(cubeVertices) |-> ScaledVertex(cubeVertices[k])]
               \o [k \in 1..Len(axisVertices) |-> ScaledVertex(axisVertices[k])]
    IN  SubSeq(all, 1, MajorCount)

generateMajorFaces ==
    LET vertices == generateDodecahedronVertices
    IN  [k \in 1..Len(vertices) |->
            [center |-> vertices[k], normal |-> normalizeVector(vertices[k])]]

\* --------------------------------------------------------- pentagon generation

\* Mutant of up: the reference axis is (0, 1, 0) whatever the normal.
upAlwaysY(normal) == createVector3(0, Unit, 0)

\* let up = createVector3(0, 1, 0); if (Math.abs(normal.y) > 0.9) up = createVector3(1, 0, 0)
up(normal) ==
    IF Abs(normal.y) > 900 THEN createVector3(Unit, 0, 0) ELSE createVector3(0, Unit, 0)

generatePentagonVertices(center, normal, radius) ==
    LET right == normalizeVector(crossProduct(up(normal), normal))
        forward == normalizeVector(crossProduct(normal, right))
    IN  [k \in 1..PentagonSize |->
            LET x == FMul(Cos5(k - 1), radius)
                y == FMul(Sin5(k - 1), radius)
            IN  addVectors(center,
                           addVectors(scaleVector(right, x), scaleVector(forward, y)))]

\* ---------------------------------------------------------- colour tables

colorMap ==
    <<WHITE, YELLOW, DARK_BLUE, LIGHT_BLUE, RED, PINK,
      ORANGE, LIGHT_GREEN, DARK_GREEN, PURPLE, GREY, DARK_BROWN>>

\* Mutant of SolvedColorsOf: the colour is looked up by the face's id.
SolvedColorsOfById(fs) ==
    [k \in 1..Len(fs) |-> colorMap[(fs[k].id % Len(colorMap)) + 1]]

\* Full model: colors.push(colorMap[face.majorFace % colorMap.length]) for each face.
SolvedColorsOf(fs) ==
    [k \in 1..Len(fs) |-> colorMap[(fs[k].majorFace % Len(colorMap)) + 1]]

\* Mutant of SimpleSolvedColors: two entries exchanged.
SimpleSolvedColorsSwapped ==
    <<WHITE, YELLOW, LIGHT_BLUE, DARK_BLUE, RED, PINK,
      ORANGE, LIGHT_GREEN, DARK_GREEN, PURPLE, GREY, DARK_BROWN>>

\* Simple model: the array literal returned by getSolvedStateColors().
SimpleSolvedColors ==
    <<WHITE, YELLOW, DARK_BLUE, LIGHT_BLUE, RED, PINK,
      ORANGE, LIGHT_GREEN, DARK_GREEN, PURPLE, GREY, DARK_BROWN>>

\* ------------------------------------------------------------------ state

VARIABLES
    pc,          \* where the single thread is: "idle", "faces", "neighbors", "simple"
    caller,      \* who runs the full generator: "main" or "solved" (getSolvedStateColors)
    faces,       \* the local `faces` array of the generator that is running
    majorIndex,  \* forEach index over the major faces / the simple model's loop index i
    sub,         \* next cell of the major face: 0 centre, 1..5 inner ring, 6..10 outer ring
    nIndex,      \* calculateNeighbors: the outer forEach index
    returned,    \* the geometries returned by createKilominxGeometry(), oldest first
    calls,       \* for each returned geometry the generator that made it: "full" / "simple"
    solved,      \* the last getSolvedStateColors() result: [model, colors], or NULL
    vsrc,        \* the returned geometry the validators were last applied to (0: none)
    varg,        \* the argument of the last validateGeometry call, as it is after the call
    vfull,       \* the last verdict of the full-model validateGeometry: [ok, inspected], or NULL
    vsimple,     \* the last verdict of the simple-model validateGeometry: [ok], or NULL
    vin,         \* the argument v of the last normalizeVector(v) call from outside, or NULL
    vout,        \* what that call returned, or NULL
    pcenter,     \* generatePentagonVertices: the argument center, or NULL
    pradius,     \* generatePentagonVertices: the argument radius
    pout,        \* generatePentagonVertices: the array returned, or NullArray
    loaded,      \* KilominxRenderer: the face-overlay import has resolved (kilominxRef is set)
    groups,      \* the material index of each triangle of the mesh (geometry.groups)
    textures,    \* the colour drawn on the texture of each material (materialsRef)
    currentColors,     \* KilominxRenderer's state currentColors
    selectedFace,      \* KilominxRenderer's state selectedFace (NoFace: null)
    pageSelectedColor, \* Home's state selectedColor
    pageSelectedFace,  \* Home's state selectedFace (NoFace: null)
    paletteUsed,       \* a palette button has been pressed
    hit,         \* intersection.faceIndex of the last click handled (NoHit: none)
    clicks,      \* how many click events the renderer has handled
    reported,    \* how many times onFaceClick has been called
    onFaceClick, \* KilominxRenderer's prop onFaceClick is supplied
    isMouseDown, \* mouseStateRef.current.isMouseDown
    lastX,       \* mouseStateRef.current.lastX (pixels)
    lastY,       \* mouseStateRef.current.lastY (pixels)
    rotationX,   \* mouseStateRef.current.rotationX (thousandths of a radian)
    rotationY,   \* mouseStateRef.current.rotationY (thousandths of a radian)
    meshRotationX,     \* kilominxRef.current.rotation.x (0 while there is no mesh)
    meshRotationY,     \* kilominxRef.current.rotation.y (0 while there is no mesh)
    pointerX,    \* clientX of the last mouse-down or mouse-move event
    pointerY,    \* clientY of the last mouse-down or mouse-move event
    event,       \* the last event the canvas handled: its type, or "none"
    mouseEvents, \* how many mouse-down, -move, -up and -leave events the canvas has handled
    mounted,     \* the init effect is in force: it has run and its cleanup has not
    frames,      \* how many animation frames animate() has rendered after the first
    framePending,      \* the frame requested under animationIdRef.current is pending
    canvasAttached,    \* renderer.domElement is a child of the mount node
    rendererDisposed,  \* renderer.dispose() has been called
    materialsDisposed, \* dispose() has been called on every material of the mesh
    geometryDisposed,  \* geometry.dispose() has been called
    cleanupError       \* what the effect cleanup threw, or "none"

genVars == <<pc, caller, faces, majorIndex, sub, nIndex, returned, calls, solved>>

valVars == <<vsrc, varg, vfull, vsimple>>

vecVars == <<vin, vout, pcenter, pradius, pout>>

uiVars == <<loaded, groups, textures, currentColors, selectedFace, pageSelectedColor,
            pageSelectedFace, paletteUsed, hit, clicks, reported, onFaceClick,
            isMouseDown, lastX, lastY, rotationX, rotationY, meshRotationX,
            meshRotationY, pointerX, pointerY, event, mouseEvents,
            mounted, frames, framePending, canvasAttached, rendererDisposed,
            materialsDisposed, geometryDisposed, cleanupError>>

\* The init effect's resources: the frame loop, the canvas, the renderer, the
\* materials and the geometry.
lifeVars == <<mounted, frames, framePending, canvasAttached, rendererDisposed,
              materialsDisposed, geometryDisposed, cleanupError>>

\* mouseStateRef, the mesh's rotation and the pointer.
dragVars == <<isMouseDown, lastX, lastY, rotationX, rotationY, meshRotationX,
              meshRotationY, pointerX, pointerY, mouseEvents>>

\* What handleClick reads and writes, and the parent's state.
paintVars == <<loaded, groups, textures, currentColors, selectedFace, pageSelectedColor,
               pageSelectedFace, paletteUsed, hit, clicks, reported, onFaceClick>>

vars == <<pc, caller, faces, majorIndex, sub, nIndex, returned, calls, solved,
          vsrc, varg, vfull, vsimple, vin, vout, pcenter, pradius, pout,
          loaded, groups, textures, currentColors, selectedFace, pageSelectedColor,
          pageSelectedFace, paletteUsed, hit, clicks, reported, onFaceClick,
          isMouseDown, lastX, lastY, rotationX, rotationY, meshRotationX,
          meshRotationY, pointerX, pointerY, event, mouseEvents,
          mounted, frames, framePending, canvasAttached, rendererDisposed,
          materialsDisposed, geometryDisposed, cleanupError>>

\* ------------------------------------------------- full model: the faces

\* const faces: Face[] = []
NewFaces == <<>>

\* Mutant of NextId: ids counted from 1.
NextIdFromOne(fs) == Len(fs) + 1

\* Mutant of NextId: ids drawn from a counter that outlives the call, so a call
\* goes on from the ids of the geometry returned before it.
NextIdContinuing(fs) ==
    Len(fs) + (IF returned = <<>> THEN 0 ELSE Len(returned[Len(returned)].faces))

\* The id a face gets when it is built: faces.length.
NextId(fs) == Len(fs)

\* Mutant of DefaultColor: a face is created in its major face's solved colour.
DefaultColorSolved(majorIdx) == colorMap[(majorIdx % Len(colorMap)) + 1]

\* color: FaceColor.WHITE
DefaultColor(majorIdx) == WHITE

\* Mutant of isCornerFace: <= for <.
isCornerFaceInclusive(majorIdx) == majorIdx <= CornerCount

isCornerFace(majorIdx) == majorIdx < CornerCount

centerFace(fs, majorFace, majorIdx) ==
    [id |-> NextId(fs),
     color |-> DefaultColor(majorIdx),
     center |-> majorFace.center,
     normal |-> majorFace.normal,
     vertices |-> generatePentagonVertices(majorFace.center, majorFace.normal,
                                           FMul(faceRadius, 300)),
     neighbors |-> <<>>,
     majorFace |-> majorIdx,
     ring |-> 0,
     ringPosition |-> 0]

\* Mutant of RingOffset: the offset is laid out in the x/z plane.
RingOffsetXZ(i, magnitude) == scaleVector(createVector3(Cos5(i), 0, Sin5(i)), magnitude)

\* scaleVector({x: Math.cos(angle), y: Math.sin(angle), z: 0}, magnitude)
RingOffset(i, magnitude) == scaleVector(createVector3(Cos5(i), Sin5(i), 0), magnitude)

\* Mutant of innerFace: the inner ring is numbered against the loop, 4 down to 0.
innerFaceBackwards(fs, majorFace, majorIdx, i) ==
    LET faceCenter == addVectors(majorFace.center, RingOffset(i, FMul(faceRadius, 600)))
    IN  [id |-> NextId(fs),
         color |-> DefaultColor(majorIdx),
         center |-> faceCenter,
         normal |-> majorFace.normal,
         vertices |-> generatePentagonVertices(faceCenter, majorFace.normal,
                                               FMul(faceRadius, 250)),
         neighbors |-> <<>>,
         majorFace |-> majorIdx,
         ring |-> 1,
         ringPosition |-> 4 - i]

innerFace(fs, majorFace, majorIdx, i) ==
    LET faceCenter == addVectors(majorFace.center, RingOffset(i, FMul(faceRadius, 600)))
    IN  [id |-> NextId(fs),
         color |-> DefaultColor(majorIdx),
         center |-> faceCenter,
         normal |-> majorFace.normal,
         vertices |-> generatePentagonVertices(faceCenter, majorFace.normal,
                                               FMul(faceRadius, 250)),
         neighbors |-> <<>>,
         majorFace |-> majorIdx,
         ring |-> 1,
         ringPosition |-> i]

outerFace(fs, majorFace, majorIdx, i) ==
    LET faceCenter == addVectors(majorFace.center, RingOffset(i, faceRadius))
    IN  [id |-> NextId(fs),
         color |-> DefaultColor(majorIdx),
         center |-> faceCenter,
         normal |-> majorFace.normal,
         vertices |-> generatePentagonVertices(faceCenter, majorFace.normal,
                                               FMul(faceRadius, 200)),
         neighbors |-> <<>>,
         majorFace |-> majorIdx,
         ring |-> 2,
         ringPosition |-> i]

\* ------------------------------------------------- full model: neighbours

\* Mutant of IsNear: <= for <.
IsNearInclusive(face, otherFace) ==
    LET dx == face.center.x - otherFace.center.x
        dy == face.center.y - otherFace.center.y
        dz == face.center.z - otherFace.center.z
        distance == Sqrt(dx * dx + dy * dy + dz * dz)
    IN  distance <= threshold

\* The inner forEach's test for one otherIndex.
IsNear(face, otherFace) ==
    LET dx == face.center.x - otherFace.center.x
        dy == face.center.y - otherFace.center.y
        dz == face.center.z - otherFace.center.z
        distance == Sqrt(dx * dx + dy * dy + dz * dz)
    IN  distance < threshold

\* The indices the inner forEach visits, in order: 0 .. faces.length - 1.
Indices(fs) == [k \in 1..Len(fs) |-> k - 1]

\* Mutant of NeighborsOf: the inner loop starts after index, so a pair is recorded
\* on one side only.
NeighborsOfForward(fs, index) ==
    LET Pushed(otherIndex) ==
            /\ index < otherIndex
            /\ IsNear(fs[index + 1], fs[otherIndex + 1])
    IN  SelectSeq(Indices(fs), Pushed)

\* One iteration of calculateNeighbors' outer forEach: the otherIndex values pushed
\* by the inner forEach, in push order; face.neighbors = neighbors.
NeighborsOf(fs, index) ==
    LET Pushed(otherIndex) ==
            /\ index # otherIndex
            /\ IsNear(fs[index + 1], fs[otherIndex + 1])
    IN  SelectSeq(Indices(fs), Pushed)

\* ------------------------------------------------------------ simple model

simpleFace(i) ==
    [id |-> i,
     color |-> WHITE,
     center |-> [x |-> 0, y |-> 0, z |-> 0],
     normal |-> [x |-> 0, y |-> Unit, z |-> 0],
     vertices |-> <<>>,
     neighbors |-> <<>>,
     majorFace |-> i,
     ring |-> 0,
     ringPosition |-> 0]

\* -------------------------------------------------------------- validators

\* if (!face.center || !face.normal || !face.vertices)
MissingProperties(face) ==
    face.center = NULL \/ face.normal = NULL \/ face.vertices = NullArray

\* Mutant of FaceRejected: < for !==, so a face with more than 5 vertices passes.
FaceRejectedShort(face) ==
    \/ MissingProperties(face)
    \/ Len(face.vertices) < ExpectedVertices

\* One iteration of for (const face of faces) returns false.
FaceRejected(face) ==
    \/ MissingProperties(face)
    \/ Len(face.vertices) # ExpectedVertices

\* for (const face of faces): false at the first rejected face, else true.
\* inspected: how many faces the loop read before it returned.
ValidateLoop(fs) ==
    LET rejected == {i \in 0..(Len(fs) - 1) : FaceRejected(fs[i + 1])}
    IN  IF rejected = {} THEN [ok |-> TRUE, inspected |-> Len(fs)]
        ELSE [ok |-> FALSE,
              inspected |-> 1 + CHOOSE i \in rejected : \A j \in rejected : i <= j]

\* Full model.  ok: the boolean returned.
validateGeometry(geometry) ==
    IF Len(geometry.faces) # ExpectedFaces THEN [ok |-> FALSE, inspected |-> 0]
    ELSE ValidateLoop(geometry.faces)

\* Mutant of validateGeometrySimple: the full model's length constant.
validateGeometrySimpleAsFull(geometry) == [ok |-> Len(geometry.faces) = ExpectedFaces]

\* Simple model.
validateGeometrySimple(geometry) == [ok |-> Len(geometry.faces) = SimpleExpectedFaces]

\* ------------------------------------------------ the page and its renderer

\* How many click events a behaviour delivers to the renderer.
MaxClicks == 2

\* positionAttribute.count of new THREE.DodecahedronGeometry(2.5, 0): 12 pentagons
\* of 3 triangles each, 3 vertices per triangle, not indexed.
PositionCount == 108

\* for (let i = 0; i < 12; i++): one material per face.
MaterialCount == 12

\* useState<number | null>(null): no face selected.
NoFace == -1

\* No click has hit the mesh.
NoHit == -1

\* An array element never assigned: the hole `newColors[faceIndex] = ...` leaves
\* when faceIndex is beyond the end, and what a read beyond the end gives.
Undefined == "undefined"

\* The palette buttons pressed here: three of the buttons of Object.values(FaceColor).
Palette == {WHITE, RED, DARK_BLUE}

\* const faceCount = positionAttribute.count / 3
faceCount == PositionCount \div 3

\* A read colors[index].
Entry(colors, index) == IF index < Len(colors) THEN colors[index + 1] ELSE Undefined

\* new Array(12)
DefaultColorCount == 12

\* getDefaultColors(): new Array(12).fill(FaceColor.WHITE)
getDefaultColors == [i \in 1..DefaultColorCount |-> WHITE]

\* const faceIndex = Math.floor(intersection.faceIndex! / 2)
faceIndex(triangle) == triangle \div 2

\* const materialIndex = Math.floor(i / 10); geometry.addGroup(i * 3, 3, materialIndex % 12)
materialIndex(i) == (i \div 10) % MaterialCount

\* Mutant of newColors: the entry after faceIndex is assigned.
newColorsShifted(colors, index, color) ==
    [k \in 1..(IF index + 1 < Len(colors) THEN Len(colors) ELSE index + 2) |->
        IF k = index + 2 THEN color ELSE Entry(colors, k - 1)]

\* const newColors = [...currentColors]; newColors[faceIndex] = selectedColor
newColors(colors, index, color) ==
    [k \in 1..(IF index < Len(colors) THEN Len(colors) ELSE index + 1) |->
        IF k = index + 1 THEN color ELSE Entry(colors, k - 1)]

\* KilominxRenderer has been mounted: its parent's selectedColor is RED, no face
\* is selected, the renderer's colours are getDefaultColors() (no faceColors are
\* passed), and the face-overlay import of the init effect is still pending.
InitMounted ==
    /\ loaded = FALSE
    /\ groups = <<>>
    /\ textures = <<>>
    /\ currentColors = getDefaultColors
    /\ selectedFace = NoFace
    /\ pageSelectedColor = RED
    /\ pageSelectedFace = NoFace
    /\ paletteUsed = FALSE
    /\ hit = NoHit
    /\ clicks = 0
    /\ reported = 0
    /\ isMouseDown = FALSE
    /\ lastX = 0
    /\ lastY = 0
    /\ rotationX = 0
    /\ rotationY = 0
    /\ meshRotationX = 0
    /\ meshRotationY = 0
    /\ pointerX = 0
    /\ pointerY = 0
    /\ event = "none"
    /\ mouseEvents = 0
    /\ mounted = TRUE
    /\ frames = 0
    /\ framePending = TRUE
    /\ canvasAttached = TRUE
    /\ rendererDisposed = FALSE
    /\ materialsDisposed = FALSE
    /\ geometryDisposed = FALSE
    /\ cleanupError = "none"

\* The renderer is mounted by Home, which passes onFaceClick={handleFaceClick}.
InitPage ==
    /\ InitMounted
    /\ onFaceClick = TRUE

\* ------------------------------------------------------------------- Init

Init ==
    /\ pc = "idle"
    /\ caller = "main"
    /\ faces = <<>>
    /\ majorIndex = 0
    /\ sub = 0
    /\ nIndex = 0
    /\ returned = <<>>
    /\ calls = <<>>
    /\ solved = NULL
    /\ vsrc = 0
    /\ varg = NULL
    /\ vfull = NULL
    /\ vsimple = NULL
    /\ vin = NULL
    /\ vout = NULL
    /\ pcenter = NULL
    /\ pradius = 0
    /\ pout = NullArray
    /\ InitPage

\* A generator call drops the verdicts held about an earlier geometry.
ClearVerdicts ==
    /\ vsrc' = 0
    /\ varg' = NULL
    /\ vfull' = NULL
    /\ vsimple' = NULL

\* ------------------------------------------- full model: createKilominxGeometry

\* The major face the forEach is at.
CurrentMajor == generateMajorFaces[majorIndex + 1]

\* generateKilominxFaces() starts: the local array, the forEach at major face 0.
StartFaces ==
    /\ pc' = "faces"
    /\ faces' = NewFaces
    /\ majorIndex' = 0
    /\ sub' = 0
    /\ nIndex' = 0

\* createKilominxGeometry() is called (full model).
CallCreateFull ==
    /\ pc = "idle"
    /\ Len(returned) < MaxCalls
    /\ StartFaces
    /\ caller' = "main"
    /\ ClearVerdicts
    /\ UNCHANGED vecVars
    /\ UNCHANGED uiVars
    /\ UNCHANGED <<returned, calls, solved>>

\* getSolvedStateColors() is called (full model): it calls createKilominxGeometry().
CallSolvedFull ==
    /\ pc = "idle"
    /\ StartFaces
    /\ caller' = "solved"
    /\ ClearVerdicts
    /\ UNCHANGED vecVars
    /\ UNCHANGED uiVars
    /\ UNCHANGED <<returned, calls, solved>>

\* faces.push(centerFace)
EmitCenter ==
    /\ pc = "faces"
    /\ majorIndex < Len(generateMajorFaces)
    /\ sub = 0
    /\ faces' = Append(faces, centerFace(faces, CurrentMajor, majorIndex))
    /\ sub' = 1
    /\ UNCHANGED <<pc, caller, majorIndex, nIndex, returned, calls, solved>>
    /\ UNCHANGED valVars
    /\ UNCHANGED vecVars
    /\ UNCHANGED uiVars

\* faces.push(innerFace) for i = sub - 1; after the fifth, the outer ring or the
\* next major face.
EmitInner ==
    /\ pc = "faces"
    /\ sub \in 1..RingSize
    /\ faces' = Append(faces, innerFace(faces, CurrentMajor, majorIndex, sub - 1))
    /\ IF sub < RingSize
       THEN sub' = sub + 1 /\ majorIndex' = majorIndex
       ELSE IF isCornerFace(majorIndex)
            THEN sub' = 0 /\ majorIndex' = majorIndex + 1
            ELSE sub' = RingSize + 1 /\ majorIndex' = majorIndex
    /\ UNCHANGED <<pc, caller, nIndex, returned, calls, solved>>
    /\ UNCHANGED valVars
    /\ UNCHANGED vecVars
    /\ UNCHANGED uiVars

\* faces.push(outerFace) for i = sub - 6; after the fifth, the next major face.
EmitOuter ==
    /\ pc = "faces"
    /\ sub \in (RingSize + 1)..(2 * RingSize)
    /\ faces' = Append(faces, outerFace(faces, CurrentMajor, majorIndex, sub - RingSize - 1))
    /\ IF sub < 2 * RingSize
       THEN sub' = sub + 1 /\ majorIndex' = majorIndex
       ELSE sub' = 0 /\ majorIndex' = majorIndex + 1
    /\ UNCHANGED <<pc, caller, nIndex, returned, calls, solved>>
    /\ UNCHANGED valVars
    /\ UNCHANGED vecVars
    /\ UNCHANGED uiVars

\* generateKilominxFaces() returns; calculateNeighbors(faces) starts.
EndFaces ==
    /\ pc = "faces"
    /\ majorIndex = Len(generateMajorFaces)
    /\ sub = 0
    /\ pc' = "neighbors"
    /\ nIndex' = 0
    /\ UNCHANGED <<caller, faces, majorIndex, sub, returned, calls, solved>>
    /\ UNCHANGED valVars
    /\ UNCHANGED vecVars
    /\ UNCHANGED uiVars

\* One iteration of calculateNeighbors' outer forEach.
NeighborsStep ==
    /\ pc = "neighbors"
    /\ nIndex < Len(faces)
    /\ faces' = [faces EXCEPT ![nIndex + 1].neighbors = NeighborsOf(faces, nIndex)]
    /\ nIndex' = nIndex + 1
    /\ UNCHANGED <<pc, caller, majorIndex, sub, returned, calls, solved>>
    /\ UNCHANGED valVars
    /\ UNCHANGED vecVars
    /\ UNCHANGED uiVars

\* createKilominxGeometry() returns { faces, radius: SCALE, scale: SCALE } to its caller.
ReturnGeometry ==
    /\ pc = "neighbors"
    /\ nIndex = Len(faces)
    /\ caller = "main"
    /\ returned' = Append(returned, [faces |-> faces, radius |-> SCALE, scale |-> SCALE])
    /\ calls' = Append(calls, "full")
    /\ pc' = "idle"
    /\ UNCHANGED <<caller, faces, majorIndex, sub, nIndex, solved>>
    /\ UNCHANGED valVars
    /\ UNCHANGED vecVars
    /\ UNCHANGED uiVars

\* createKilominxGeometry() returns inside getSolvedStateColors(), which maps the
\* faces to colours and returns them.
ReturnSolvedFull ==
    /\ pc = "neighbors"
    /\ nIndex = Len(faces)
    /\ caller = "solved"
    /\ solved' = [model |-> "full", colors |-> SolvedColorsOf(faces)]
    /\ caller' = "main"
    /\ pc' = "idle"
    /\ UNCHANGED <<faces, majorIndex, sub, nIndex, returned, calls>>
    /\ UNCHANGED valVars
    /\ UNCHANGED vecVars
    /\ UNCHANGED uiVars

\* ------------------------------------------ simple model: createKilominxGeometry

CallCreateSimple ==
    /\ pc = "idle"
    /\ Len(returned) < MaxCalls
    /\ pc' = "simple"
    /\ faces' = <<>>
    /\ majorIndex' = 0
    /\ ClearVerdicts
    /\ UNCHANGED vecVars
    /\ UNCHANGED uiVars
    /\ UNCHANGED <<caller, sub, nIndex, returned, calls, solved>>

\* One iteration of for (let i = 0; i < 12; i++): faces.push(face).
SimpleStep ==
    /\ pc = "simple"
    /\ majorIndex < SimpleFaceCount
    /\ faces' = Append(faces, simpleFace(majorIndex))
    /\ majorIndex' = majorIndex + 1
    /\ UNCHANGED <<pc, caller, sub, nIndex, returned, calls, solved>>
    /\ UNCHANGED valVars
    /\ UNCHANGED vecVars
    /\ UNCHANGED uiVars

\* return { faces, radius: 2.0, scale: 2.0 }
SimpleReturn ==
    /\ pc = "simple"
    /\ majorIndex = SimpleFaceCount
    /\ returned' = Append(returned, [faces |-> faces, radius |-> 2 * Unit, scale |-> 2 * Unit])
    /\ calls' = Append(calls, "simple")
    /\ pc' = "idle"
    /\ UNCHANGED <<caller, faces, majorIndex, sub, nIndex, solved>>
    /\ UNCHANGED valVars
    /\ UNCHANGED vecVars
    /\ UNCHANGED uiVars

\* getSolvedStateColors() of the simple model.
SolvedSimple ==
    /\ pc = "idle"
    /\ solved' = [model |-> "simple", colors |-> SimpleSolvedColors]
    /\ UNCHANGED <<pc, caller, faces, majorIndex, sub, nIndex, returned, calls>>
    /\ UNCHANGED valVars
    /\ UNCHANGED vecVars
    /\ UNCHANGED uiVars

\* ------------------------------------------------ validators on a geometry

\* validateGeometry(g) of the full model; g is returned[k], or (k = 0) a geometry
\* handed in from outside.
ValidateFull(g, k) ==
    /\ pc = "idle"
    /\ vsrc' = k
    /\ varg' = g
    /\ vfull' = validateGeometry(g)
    /\ vsimple' = IF vsrc = k THEN vsimple ELSE NULL
    /\ UNCHANGED genVars
    /\ UNCHANGED vecVars
    /\ UNCHANGED uiVars

\* validateGeometry(g) of the simple model.
ValidateSimple(g, k) ==
    /\ pc = "idle"
    /\ vsrc' = k
    /\ varg' = g
    /\ vsimple' = validateGeometrySimple(g)
    /\ vfull' = IF vsrc = k THEN vfull ELSE NULL
    /\ UNCHANGED genVars
    /\ UNCHANGED vecVars
    /\ UNCHANGED uiVars

Next ==
    \/ CallCreateFull
    \/ CallSolvedFull
    \/ EmitCenter
    \/ EmitInner
    \/ EmitOuter
    \/ EndFaces
    \/ NeighborsStep
    \/ ReturnGeometry
    \/ ReturnSolvedFull
    \/ CallCreateSimple
    \/ SimpleStep
    \/ SimpleReturn
    \/ SolvedSimple
    \/ \E k \in 1..Len(returned) : ValidateFull(returned[k], k)
    \/ \E k \in 1..Len(returned) : ValidateSimple(returned[k], k)

Spec == Init /\ [][Next]_vars

\* ---------------------------------- validateGeometry on geometries from outside

InputPentagon ==
    generatePentagonVertices(createVector3(0, 0, 0), createVector3(0, Unit, 0), Unit)

\* A well-formed face: a flat pentagon at the origin.
InputFace(i) ==
    [id |-> i,
     color |-> WHITE,
     center |-> createVector3(0, 0, 0),
     normal |-> createVector3(0, Unit, 0),
     vertices |-> InputPentagon,
     neighbors |-> <<>>,
     majorFace |-> i % MajorCount,
     ring |-> 0,
     ringPosition |-> 0]

DefectKinds == {"ok", "noCenter", "noNormal", "noVertices", "none", "four", "six"}

Damaged(face, kind) ==
    CASE kind = "ok" -> face
      [] kind = "noCenter" -> [face EXCEPT !.center = NULL]
      [] kind = "noNormal" -> [face EXCEPT !.normal = NULL]
      [] kind = "noVertices" -> [face EXCEPT !.vertices = NullArray]
      [] kind = "none" -> [face EXCEPT !.vertices = <<>>]
      [] kind = "four" -> [face EXCEPT !.vertices = SubSeq(face.vertices, 1, 4)]
      [] kind = "six" -> [face EXCEPT !.vertices = Append(face.vertices, face.vertices[1])]

\* The array positions (0-based) that may hold a damaged face: the first two and the last.
DefectSpots(len) == {0, 1, len - 1} \cap 0..(len - 1)

InputGeometry(len, defects) ==
    [faces |-> [k \in 1..len |->
                   IF k - 1 \in DOMAIN defects
                   THEN Damaged(InputFace(k - 1), defects[k - 1])
                   ELSE InputFace(k - 1)],
     radius |-> SCALE,
     scale |-> SCALE]

InputLengths ==
    {0, SimpleExpectedFaces} \cup (ExpectedFaces - MaxSlack)..(ExpectedFaces + MaxSlack)

ValidatorInputs ==
    UNION {{InputGeometry(len, d) : d \in [DefectSpots(len) -> DefectKinds]} :
           len \in InputLengths}

\* A geometry is handed in; nothing has been generated or validated.
InitValidate ==
    /\ pc = "idle"
    /\ caller = "main"
    /\ faces = <<>>
    /\ majorIndex = 0
    /\ sub = 0
    /\ nIndex = 0
    /\ returned = <<>>
    /\ calls = <<>>
    /\ solved = NULL
    /\ vsrc = 0
    /\ varg \in ValidatorInputs
    /\ vfull = NULL
    /\ vsimple = NULL
    /\ vin = NULL
    /\ vout = NULL
    /\ pcenter = NULL
    /\ pradius = 0
    /\ pout = NullArray
    /\ InitPage

\* The full-model validateGeometry is called on it, once.
NextValidate ==
    /\ vfull = NULL
    /\ ValidateFull(varg, 0)

SpecValidate == InitValidate /\ [][NextValidate]_vars

\* ------------------------------ calculateNeighbors on faces from outside

\* Face centres on the x axis, at distances below, at and above the threshold of
\* one another.
NeighborCenters ==
    {createVector3(x, 0, 0) :
        x \in {0, threshold - 1, threshold, threshold + 1, 2 * threshold}}

\* How many faces calculateNeighbors is handed.
NeighborInputLen == 3

\* Arrays of well-formed faces, ids 0.., with their centres on the x axis.
NeighborInputs ==
    {[k \in 1..NeighborInputLen |-> [InputFace(k - 1) EXCEPT !.center = c[k]]] :
        c \in [1..NeighborInputLen -> NeighborCenters]}

\* calculateNeighbors(faces) has been entered with an array handed in.
InitNeighbors ==
    /\ pc = "neighbors"
    /\ caller = "main"
    /\ faces \in NeighborInputs
    /\ majorIndex = 0
    /\ sub = 0
    /\ nIndex = 0
    /\ returned = <<>>
    /\ calls = <<>>
    /\ solved = NULL
    /\ vsrc = 0
    /\ varg = NULL
    /\ vfull = NULL
    /\ vsimple = NULL
    /\ vin = NULL
    /\ vout = NULL
    /\ pcenter = NULL
    /\ pradius = 0
    /\ pout = NullArray
    /\ InitPage

\* The outer forEach runs to the end of the array.
NextNeighbors == NeighborsStep

SpecNeighbors == InitNeighbors /\ [][NextNeighbors]_vars

\* ------------------------------- the vector utilities called from outside

\* Arguments for normalizeVector: the zero vector, the vectors with components
\* -1, 0, 1, and the anchors of the major faces.
VectorInputs ==
    {createVector3(x, y, z) : x \in {-Unit, 0, Unit}, y \in {-Unit, 0, Unit},
                              z \in {-Unit, 0, Unit}}
    \cup {generateDodecahedronVertices[m] : m \in 1..MajorCount}

\* Arguments for generatePentagonVertices' center: the origin, a corner anchor and
\* an axis anchor.
CenterInputs ==
    {createVector3(0, 0, 0), generateDodecahedronVertices[1],
     generateDodecahedronVertices[MajorCount]}

\* Arguments for generatePentagonVertices' radius: the three radii the generator
\* passes, 1.0 and 2.0.
RadiusInputs ==
    {FMul(faceRadius, 300), FMul(faceRadius, 250), FMul(faceRadius, 200), Unit, SCALE}

\* The arguments are chosen; nothing has been called.
InitVector ==
    /\ pc = "idle"
    /\ caller = "main"
    /\ faces = <<>>
    /\ majorIndex = 0
    /\ sub = 0
    /\ nIndex = 0
    /\ returned = <<>>
    /\ calls = <<>>
    /\ solved = NULL
    /\ vsrc = 0
    /\ varg = NULL
    /\ vfull = NULL
    /\ vsimple = NULL
    /\ vin \in VectorInputs
    /\ vout = NULL
    /\ pcenter \in CenterInputs
    /\ pradius \in RadiusInputs
    /\ pout = NullArray
    /\ InitPage

\* normalizeVector(vin) is called, once; it builds a new object and assigns
\* nothing to its argument.
Normalize ==
    /\ vout = NULL
    /\ vout' = normalizeVector(vin)
    /\ UNCHANGED <<vin, pcenter, pradius, pout>>
    /\ UNCHANGED <<genVars, valVars>>
    /\ UNCHANGED uiVars

\* generatePentagonVertices(pcenter, vout, pradius) is called, once, with the
\* normalised vector as its normal.
Pentagon ==
    /\ vout # NULL
    /\ pout = NullArray
    /\ pout' = generatePentagonVertices(pcenter, vout, pradius)
    /\ UNCHANGED <<vin, vout, pcenter, pradius>>
    /\ UNCHANGED <<genVars, valVars>>
    /\ UNCHANGED uiVars

NextVector ==
    \/ Normalize
    \/ Pentagon

SpecVector == InitVector /\ [][NextVector]_vars

\* ------------------------------------------- the page and its renderer: events

\* The init effect's import('@/lib/kilominx/face-overlay') resolves: 12 materials
\* textured with currentColors[i], one group per triangle, kilominxRef set.
ImportResolved ==
    /\ ~loaded
    /\ loaded' = TRUE
    /\ textures' = [i \in 1..MaterialCount |-> Entry(currentColors, i - 1)]
    /\ groups' = [i \in 1..faceCount |-> materialIndex(i - 1)]
    /\ meshRotationX' = 0
    /\ meshRotationY' = 0
    /\ UNCHANGED <<currentColors, selectedFace, pageSelectedColor, pageSelectedFace,
                   paletteUsed, hit, clicks, reported>>
    /\ UNCHANGED onFaceClick
    /\ UNCHANGED <<isMouseDown, lastX, lastY, rotationX, rotationY, pointerX, pointerY,
                   event, mouseEvents>>
    /\ UNCHANGED <<genVars, valVars, vecVars, lifeVars>>

\* A palette button is pressed: handleColorSelect(color).
SelectColor(color) ==
    /\ pageSelectedColor' = color
    /\ paletteUsed' = TRUE
    /\ UNCHANGED <<loaded, groups, textures, currentColors, selectedFace,
                   pageSelectedFace, hit, clicks, reported>>
    /\ UNCHANGED onFaceClick
    /\ UNCHANGED <<event, dragVars>>
    /\ UNCHANGED <<genVars, valVars, vecVars, lifeVars>>

\* Mutant of handleClickReturns: the guard does not ask for the mesh.
handleClickReturnsWithoutMesh == ~onFaceClick

\* if (!cameraRef.current || !sceneRef.current || !kilominxRef.current || !onFaceClick) return;
\* the camera and the scene exist from the init effect on, the mesh once the
\* import has resolved.
handleClickReturns == ~loaded \/ ~onFaceClick

\* handleClick before the mesh exists or without an onFaceClick: it returns at its
\* first line.
ClickIgnored ==
    /\ handleClickReturns
    /\ clicks < MaxClicks
    /\ clicks' = clicks + 1
    /\ UNCHANGED <<loaded, groups, textures, currentColors, selectedFace,
                   pageSelectedColor, pageSelectedFace, paletteUsed, hit, reported>>
    /\ UNCHANGED onFaceClick
    /\ event' = "click"
    /\ UNCHANGED dragVars
    /\ UNCHANGED <<genVars, valVars, vecVars, lifeVars>>

\* handleClick with the ray missing the mesh: intersects.length is 0.
ClickMiss ==
    /\ ~handleClickReturns
    /\ clicks < MaxClicks
    /\ clicks' = clicks + 1
    /\ hit' = NoHit
    /\ UNCHANGED <<loaded, groups, textures, currentColors, selectedFace,
                   pageSelectedColor, pageSelectedFace, paletteUsed, reported>>
    /\ UNCHANGED onFaceClick
    /\ event' = "click"
    /\ UNCHANGED dragVars
    /\ UNCHANGED <<genVars, valVars, vecVars, lifeVars>>

\* handleClick with the ray hitting the given triangle of the mesh:
\* setSelectedFace(faceIndex), onFaceClick(faceIndex) (Home's handleFaceClick),
\* setCurrentColors(newColors), and, once the face-overlay module (loaded before
\* the mesh existed) is handed over again, updateFaceColor on the texture of
\* materialsRef.current[faceIndex] if there is such a material.  selectedColor
\* and currentColors are those of the last render: handleClick is rebuilt when
\* either changes.
Click(triangle) ==
    /\ ~handleClickReturns
    /\ clicks < MaxClicks
    /\ clicks' = clicks + 1
    /\ hit' = triangle
    /\ selectedFace' = faceIndex(triangle)
    /\ pageSelectedFace' = faceIndex(triangle)
    /\ reported' = reported + 1
    /\ currentColors' = newColors(currentColors, faceIndex(triangle), pageSelectedColor)
    /\ textures' = IF faceIndex(triangle) < Len(textures)
                   THEN [textures EXCEPT ![faceIndex(triangle) + 1] = pageSelectedColor]
                   ELSE textures
    /\ UNCHANGED <<loaded, groups, pageSelectedColor, paletteUsed>>
    /\ UNCHANGED onFaceClick
    /\ event' = "click"
    /\ UNCHANGED dragVars
    /\ UNCHANGED <<genVars, valVars, vecVars, lifeVars>>

NextRenderer ==
    \/ ImportResolved
    \/ \E color \in Palette : SelectColor(color)
    \/ ClickIgnored
    \/ ClickMiss
    \/ \E triangle \in 0..(faceCount - 1) : Click(triangle)

\* The renderer has been mounted, by Home or by a parent that passes no
\* onFaceClick; nothing else has been called.
InitRenderer ==
    /\ pc = "idle"
    /\ caller = "main"
    /\ faces = <<>>
    /\ majorIndex = 0
    /\ sub = 0
    /\ nIndex = 0
    /\ returned = <<>>
    /\ calls = <<>>
    /\ solved = NULL
    /\ vsrc = 0
    /\ varg = NULL
    /\ vfull = NULL
    /\ vsimple = NULL
    /\ vin = NULL
    /\ vout = NULL
    /\ pcenter = NULL
    /\ pradius = 0
    /\ pout = NullArray
    /\ InitMounted
    /\ onFaceClick \in BOOLEAN

SpecRenderer == InitRenderer /\ [][NextRenderer]_vars

\* --------------------------------------------- the renderer: dragging the mesh

\* How many mouse-down, -move, -up and -leave events a behaviour delivers.
MaxMouseEvents == 4

\* deltaX * 0.01: 0.01 radian per pixel, in thousandths of a radian.
DragSpeed == 10

\* The clientX and clientY values of the mouse events delivered.
PointerXs == {0, 3}

PointerYs == {0, 2}

\* The triangles clicked while dragging is exercised: one with a material of its
\* face index and one without.
DragTriangles == {0, 24}

\* handleMouseDown
handleMouseDown(clientX, clientY) ==
    /\ mouseEvents < MaxMouseEvents
    /\ mouseEvents' = mouseEvents + 1
    /\ event' = "mousedown"
    /\ pointerX' = clientX
    /\ pointerY' = clientY
    /\ isMouseDown' = TRUE
    /\ lastX' = clientX
    /\ lastY' = clientY
    /\ UNCHANGED <<rotationX, rotationY, meshRotationX, meshRotationY>>
    /\ UNCHANGED paintVars
    /\ UNCHANGED <<genVars, valVars, vecVars, lifeVars>>

\* Mutant of handleMouseMoveReturns: the guard asks for the mesh only, not for the button.
handleMouseMoveReturnsMeshOnly == ~loaded

\* if (!mouseStateRef.current.isMouseDown || !kilominxRef.current) return;
handleMouseMoveReturns == ~isMouseDown \/ ~loaded

\* handleMouseMove
handleMouseMove(clientX, clientY) ==
    /\ mouseEvents < MaxMouseEvents
    /\ mouseEvents' = mouseEvents + 1
    /\ event' = "mousemove"
    /\ pointerX' = clientX
    /\ pointerY' = clientY
    /\ IF handleMouseMoveReturns
       THEN UNCHANGED <<lastX, lastY, rotationX, rotationY, meshRotationX, meshRotationY>>
       ELSE LET deltaX == clientX - lastX
                deltaY == clientY - lastY
            IN  /\ rotationY' = rotationY + deltaX * DragSpeed
                /\ rotationX' = rotationX + deltaY * DragSpeed
                /\ meshRotationX' = rotationX'
                /\ meshRotationY' = rotationY'
                /\ lastX' = clientX
                /\ lastY' = clientY
    /\ UNCHANGED isMouseDown
    /\ UNCHANGED paintVars
    /\ UNCHANGED <<genVars, valVars, vecVars, lifeVars>>

\* handleMouseUp, bound to onMouseUp
handleMouseUp ==
    /\ mouseEvents < MaxMouseEvents
    /\ mouseEvents' = mouseEvents + 1
    /\ event' = "mouseup"
    /\ isMouseDown' = FALSE
    /\ UNCHANGED <<lastX, lastY, rotationX, rotationY, meshRotationX, meshRotationY,
                   pointerX, pointerY>>
    /\ UNCHANGED paintVars
    /\ UNCHANGED <<genVars, valVars, vecVars, lifeVars>>

\* handleMouseUp, bound to onMouseLeave
MouseLeave ==
    /\ mouseEvents < MaxMouseEvents
    /\ mouseEvents' = mouseEvents + 1
    /\ event' = "mouseleave"
    /\ isMouseDown' = FALSE
    /\ UNCHANGED <<lastX, lastY, rotationX, rotationY, meshRotationX, meshRotationY,
                   pointerX, pointerY>>
    /\ UNCHANGED paintVars
    /\ UNCHANGED <<genVars, valVars, vecVars, lifeVars>>

NextDrag ==
    \/ ImportResolved
    \/ \E clientX \in PointerXs, clientY \in PointerYs : handleMouseDown(clientX, clientY)
    \/ \E clientX \in PointerXs, clientY \in PointerYs : handleMouseMove(clientX, clientY)
    \/ handleMouseUp
    \/ MouseLeave
    \/ ClickIgnored
    \/ ClickMiss
    \/ \E triangle \in DragTriangles : Click(triangle)

SpecDrag == Init /\ [][NextDrag]_vars

\* ------------------------------------- the renderer: the init effect's lifetime

\* How many animation frames a behaviour renders after the effect's own animate().
MaxFrames == 2

\* The pending animation frame fires: animate() renders the scene and requests
\* the next frame (renderer, scene and camera are constants of the effect, so
\* its early return is never taken).
animate ==
    /\ framePending
    /\ frames < MaxFrames
    /\ frames' = frames + 1
    /\ framePending' = TRUE
    /\ UNCHANGED <<mounted, canvasAttached, rendererDisposed, materialsDisposed,
                   geometryDisposed, cleanupError>>
    /\ UNCHANGED <<paintVars, dragVars, event>>
    /\ UNCHANGED <<genVars, valVars, vecVars>>

\* The init effect's cleanup, run when the component unmounts or width/height
\* change.  mountNode: mountRef.current still holds the mount node when the
\* cleanup runs (it does before a re-run of the effect; on unmount React may
\* have detached the ref already).  The frame is cancelled, the canvas is
\* removed if the mount node is at hand, the renderer is disposed; then
\* `materials` is evaluated, a const of the import's then-callback that is not
\* in scope here: a ReferenceError is thrown, so no material is disposed and
\* geometry.dispose() is not reached.
cleanup(mountNode) ==
    /\ mounted
    /\ mounted' = FALSE
    /\ framePending' = FALSE
    /\ canvasAttached' = (IF mountNode THEN FALSE ELSE canvasAttached)
    /\ rendererDisposed' = TRUE
    /\ cleanupError' = "ReferenceError"
    /\ UNCHANGED <<frames, materialsDisposed, geometryDisposed>>
    /\ UNCHANGED <<paintVars, dragVars, event>>
    /\ UNCHANGED <<genVars, valVars, vecVars>>

\* The canvas delivers events while the effect is in force; the import resolves
\* whenever it does, before the cleanup or after it.
NextLifecycle ==
    \/ ImportResolved
    \/ animate
    \/ \E mountNode \in BOOLEAN : cleanup(mountNode)
    \/ mounted /\ ClickIgnored
    \/ mounted /\ ClickMiss
    \/ mounted /\ \E triangle \in DragTriangles : Click(triangle)

SpecLifecycle == Init /\ [][NextLifecycle]_vars

\* ======================================================================
\* Properties of the generated geometries
\* ======================================================================

\* The elements of a sequence.
Range(seq) == {seq[k] : k \in 1..Len(seq)}

\* The returned geometries made by the given generator.
ReturnedBy(model) == {k \in 1..Len(returned) : calls[k] = model}

\* No call is running.  `returned` changes only in the step that ends a call, and
\* that step leaves the thread idle, so a property of the returned geometries that
\* holds whenever the thread is idle holds of every geometry ever returned.
Idle == pc = "idle"

\* The positions of the faces of fs that belong to major face m and ring r.
Cells(fs, m, r) == {k \in 1..Len(fs) : fs[k].majorFace = m /\ fs[k].ring = r}

\* C1 (as claimed): every geometry returned by the full-model
\* createKilominxGeometry() has exactly 62 faces, and every face id is in 0..61.
C1_FullHas62Faces ==
    \A k \in ReturnedBy("full") :
        /\ Len(returned[k].faces) = ExpectedFaces
        /\ \A i \in 1..Len(returned[k].faces) :
               returned[k].faces[i].id \in 0..(ExpectedFaces - 1)

\* C2 (as claimed): in every returned geometry, full or simple, every face has
\* exactly 5 vertices.
C2_FiveVertices ==
    \A k \in 1..Len(returned) :
        \A i \in 1..Len(returned[k].faces) :
            Len(returned[k].faces[i].vertices) = 5

\* C3: in every returned geometry, full or simple, the face at array position k
\* (0-based) has id k, so the ids are exactly 0..n-1, each once.
C3_IdsArePositions ==
    \A k \in 1..Len(returned) :
        LET fs == returned[k].faces
        IN  /\ \A i \in 1..Len(fs) : fs[i].id = i - 1
            /\ {fs[i].id : i \in 1..Len(fs)} = 0..(Len(fs) - 1)

\* C3 witness: a full geometry and a simple geometry have both been returned.
C3_Witness ==
    /\ ReturnedBy("full") # {}
    /\ ReturnedBy("simple") # {}

\* C4: in a full geometry every major face 0..11 has exactly one ring-0 cell and
\* five ring-1 cells with ringPosition 0..4 each once; major faces 0..7 have no
\* ring-2 cell, major faces 8..11 have five, with ringPosition 0..4 each once;
\* no cell has another ring or major face.
C4_RingCounts ==
    Idle => \A k \in ReturnedBy("full") :
        LET fs == returned[k].faces
            Positions(m, r) == {fs[i].ringPosition : i \in Cells(fs, m, r)}
        IN  /\ \A i \in 1..Len(fs) : fs[i].ring \in {0, 1, 2} /\ fs[i].majorFace \in 0..11
            /\ \A m \in 0..11 :
                /\ Cardinality(Cells(fs, m, 0)) = 1
                /\ Cardinality(Cells(fs, m, 1)) = 5
                /\ Positions(m, 1) = 0..4
                /\ m < 8 => Cells(fs, m, 2) = {}
                /\ m >= 8 => Cardinality(Cells(fs, m, 2)) = 5 /\ Positions(m, 2) = 0..4

\* C4 witness: a full geometry has been returned, with a major face that has an
\* outer ring and one that has none.
C4_Witness ==
    \E k \in ReturnedBy("full") :
        /\ Cells(returned[k].faces, 0, 2) = {}
        /\ Cells(returned[k].faces, 11, 2) # {}

\* C5: in every returned geometry the neighbour relation is symmetric and
\* irreflexive on face ids.
C5_NeighborsSymmetricIrreflexive ==
    Idle => \A k \in 1..Len(returned) :
        LET fs == returned[k].faces
            nbrs == [a \in 1..Len(fs) |-> Range(fs[a].neighbors)]
        IN  \A a \in 1..Len(fs) :
                /\ fs[a].id \notin nbrs[a]
                /\ \A b \in 1..Len(fs) :
                       fs[b].id \in nbrs[a] => fs[a].id \in nbrs[b]

\* C5 witness: a returned full geometry in which some face has neighbours in its
\* own major face and in another one.
C5_Witness ==
    \E k \in ReturnedBy("full") :
        LET fs == returned[k].faces
        IN  \E a \in 1..Len(fs) :
                /\ \E n \in Range(fs[a].neighbors) : fs[n + 1].majorFace = fs[a].majorFace
                /\ \E n \in Range(fs[a].neighbors) : fs[n + 1].majorFace # fs[a].majorFace

\* A face with every property validateGeometry asks for.
WellFormed(face) ==
    /\ face.center # NULL
    /\ face.normal # NULL
    /\ face.vertices # NullArray
    /\ Len(face.vertices) = 5

\* What the full-model validateGeometry is to return on geometry g.
Acceptable(g) ==
    /\ Len(g.faces) = 62
    /\ \A i \in 1..Len(g.faces) : WellFormed(g.faces[i])

\* C6, the verdict: once the full-model validateGeometry has returned, its result
\* is TRUE exactly when the argument has 62 faces, all well formed; an argument of
\* another length is rejected with no face read; an argument of length 62 is
\* rejected at its first face that is not well formed.
C6_Verdict ==
    vfull # NULL =>
        /\ vfull.ok = Acceptable(varg)
        /\ Len(varg.faces) # 62 => vfull.inspected = 0
        /\ (Len(varg.faces) = 62 /\ ~vfull.ok) =>
               /\ ~WellFormed(varg.faces[vfull.inspected])
               /\ \A i \in 1..(vfull.inspected - 1) : WellFormed(varg.faces[i])

\* C6: the full-model validateGeometry(g) returns true exactly when g has 62 faces
\* and every face has a center, a normal and a list of exactly 5 vertices, and
\* false otherwise; the length is checked before any face; g is not modified.
C6_ValidateGeometry == [](C6_Verdict) /\ [][varg' = varg]_vars

\* C6 witness: validateGeometry has accepted a geometry, the one of 62 well-formed
\* faces.
C6_Witness ==
    /\ vfull # NULL
    /\ vfull.ok
    /\ Len(varg.faces) = 62

\* C7: every geometry returned by the simple-model createKilominxGeometry() has
\* exactly 12 faces; on it the simple-model validateGeometry returns true and the
\* full-model validateGeometry returns false.
C7_SimpleGeometryVerdicts ==
    \A k \in ReturnedBy("simple") :
        /\ Len(returned[k].faces) = 12
        /\ (vsrc = k /\ vsimple # NULL) => vsimple.ok
        /\ (vsrc = k /\ vfull # NULL) => ~vfull.ok

\* C7 witness: both validators have been applied to the same simple geometry and
\* disagree.
C7_Witness ==
    \E k \in ReturnedBy("simple") :
        /\ vsrc = k
        /\ varg = returned[k]
        /\ vsimple # NULL
        /\ vfull # NULL
        /\ vsimple.ok
        /\ ~vfull.ok

\* The documented colour order.
DocumentedOrder ==
    <<WHITE, YELLOW, DARK_BLUE, LIGHT_BLUE, RED, PINK,
      ORANGE, LIGHT_GREEN, DARK_GREEN, PURPLE, GREY, DARK_BROWN>>

PairwiseDistinct(seq) == Cardinality(Range(seq)) = Len(seq)

FullFaceCount == MajorCount * (1 + RingSize) + (MajorCount - CornerCount) * RingSize

C9_EqualResults ==
    \A j, k \in ReturnedBy("full") : returned[j] = returned[k]

\* No step changes a geometry that an earlier call returned.
C9_ResultsKept ==
    /\ Len(returned') >= Len(returned)
    /\ \A k \in 1..Len(returned) : returned'[k] = returned[k]

\* C9: two calls of the full-model createKilominxGeometry() return geometries equal
\* field by field, whatever was called in between, and no call changes what an
\* earlier call returned.
C9_Deterministic == [](C9_EqualResults) /\ [][C9_ResultsKept]_vars

\* C9 witness: the full generator has returned twice.
C9_Witness == Cardinality(ReturnedBy("full")) >= 2

\* C10: every face of every returned geometry, full or simple, has colour WHITE.
C10_AllWhite ==
    \A k \in 1..Len(returned) :
        \A i \in 1..Len(returned[k].faces) : returned[k].faces[i].color = WHITE

\* C10 witness: a full geometry has been returned, with faces on major faces whose
\* solved colour is not WHITE.
C10_Witness ==
    \E k \in ReturnedBy("full") :
        \E i \in 1..Len(returned[k].faces) : returned[k].faces[i].majorFace = 11

\* The zero vector.
ZeroVector == [x |-> 0, y |-> 0, z |-> 0]

\* C13, the result: once normalizeVector has returned on the zero vector, its
\* result is the zero vector, a vector like any other.
C13_ZeroResult ==
    (vout # NULL /\ vin = ZeroVector) =>
        /\ vout = ZeroVector
        /\ DOMAIN vout = {"x", "y", "z"}

\* C13: normalizeVector applied to the zero vector (0,0,0) returns the zero vector
\* (0,0,0) as an ordinary value; it raises no error and divides by nothing (in
\* this model a division by a zero length cannot be evaluated), and it leaves its
\* argument as it was.
C13_NormalizeZero == [](C13_ZeroResult) /\ [][vin' = vin]_vars

\* C13 witness: normalizeVector has returned on the zero vector.
C13_Witness ==
    /\ vin = ZeroVector
    /\ vout # NULL

\* The length of a vector, as normalizeVector computes it.
VectorLength(v) == Sqrt(v.x * v.x + v.y * v.y + v.z * v.z)

\* Length 1.0 to the resolution of the fixed-point grid, one thousandth.
UnitLength(v) == Abs(VectorLength(v) - Unit) <= 1

\* C11: every face of every returned geometry, full or simple, has a normal of
\* unit length (here: to within the grid's resolution); in a full geometry each
\* cell's normal is normalizeVector of its major face's anchor; every anchor is
\* non-zero, so no face has the zero vector of normalizeVector's fallback as its
\* normal.
C11_UnitNormals ==
    Idle =>
        LET anchors == generateDodecahedronVertices
            anchorNormal == [m \in 1..Len(anchors) |-> normalizeVector(anchors[m])]
        IN  /\ \A m \in 1..Len(anchors) : anchors[m] # ZeroVector
            /\ \A k \in 1..Len(returned) :
                   \A i \in 1..Len(returned[k].faces) :
                       LET face == returned[k].faces[i]
                       IN  /\ face.normal # ZeroVector
                           /\ UnitLength(face.normal)
                           /\ calls[k] = "full" =>
                                  face.normal = anchorNormal[face.majorFace + 1]

\* C11 witness: a full geometry has been returned whose cells have normals from a
\* corner anchor and from an axis anchor.
C11_Witness ==
    \E k \in ReturnedBy("full") :
        LET fs == returned[k].faces
        IN  /\ \E i \in 1..Len(fs) : fs[i].normal.x # 0 /\ UnitLength(fs[i].normal)
            /\ \E i \in 1..Len(fs) : fs[i].normal.x = 0 /\ UnitLength(fs[i].normal)

\* The difference of two vectors, their dot product and their distance.
Minus(a, b) == [x |-> a.x - b.x, y |-> a.y - b.y, z |-> a.z - b.z]

Dot(a, b) == FMul(a.x, b.x) + FMul(a.y, b.y) + FMul(a.z, b.z)

Distance(a, b) == VectorLength(Minus(a, b))

\* Two lengths equal to within tol thousandths.
Within(a, b, tol) == Abs(a - b) <= tol

\* The vertex after vertex k of a pentagon, cyclically.
After(k) == (k % 5) + 1

\* The rounding allowed on a pentagon's lengths, in thousandths: 2 for the rounding
\* of a point's coordinates and of a distance to the grid, and 0.15% of the radius
\* for the rounding of the two basis vectors' lengths.
PentagonTolerance == 2 + ((3 * pradius) \div 2000)

\* C12, the pentagon: once generatePentagonVertices has returned for a unit normal
\* and a positive radius, it has returned 5 points; each lies in the plane through
\* center orthogonal to normal and at distance radius from center; consecutive
\* points (the last with the first) are separated by 72 degrees around center,
\* that is, by the chord 2 * radius * sin(36 degrees) = 1.176 * radius, and points
\* two apart by the chord 2 * radius * sin(72 degrees) = 1.902 * radius.
C12_RegularPentagon ==
    (pout # NullArray /\ vout # ZeroVector) =>
        /\ UnitLength(vout)
        /\ pradius > 0
        /\ Len(pout) = 5
        /\ \A k \in 1..5 :
               /\ Within(Dot(Minus(pout[k], pcenter), vout), 0, PentagonTolerance)
               /\ Within(Distance(pout[k], pcenter), pradius, PentagonTolerance)
               /\ Within(Distance(pout[k], pout[After(k)]), FMul(1176, pradius),
                         PentagonTolerance)
               /\ Within(Distance(pout[k], pout[After(After(k))]), FMul(1902, pradius),
                         PentagonTolerance)

\* C12, the basis: for every unit normal the reference axis is (0,1,0) unless
\* |normal.y| > 0.9, and then it is (1,0,0); its cross product with the normal is
\* not the zero vector.
C12_ReferenceAxis ==
    (vout # NULL /\ vout # ZeroVector) =>
        /\ Abs(vout.y) > 900 => up(vout) = createVector3(Unit, 0, 0)
        /\ Abs(vout.y) <= 900 => up(vout) = createVector3(0, Unit, 0)
        /\ crossProduct(up(vout), vout) # ZeroVector

\* C12: generatePentagonVertices(center, normal, radius), for a unit normal and a
\* positive radius, returns a regular pentagon of that radius around center in
\* the plane orthogonal to normal, built on a reference axis whose cross product
\* with the normal is never the zero vector.
C12_PentagonVertices == C12_RegularPentagon /\ C12_ReferenceAxis

\* C12 witness: pentagons have been generated for a normal with |normal.y| > 0.9
\* (an axis anchor's), on the reference axis (1,0,0).
C12_Witness ==
    /\ pout # NullArray
    /\ vin = generateDodecahedronVertices[MajorCount]
    /\ up(vout) = createVector3(Unit, 0, 0)
    /\ Len(pout) = 5

\* Face b is the one emitted right after face a: the next cell of a's major face
\* (the centre, then ring 1 at positions 0..4, then ring 2 at positions 0..4), or
\* the centre of the next major face once a's last ring is complete.
EmittedAfter(a, b) ==
    \/ /\ b.majorFace = a.majorFace
       /\ \/ a.ring = 0 /\ b.ring = 1 /\ b.ringPosition = 0
          \/ a.ring \in {1, 2} /\ b.ring = a.ring /\ b.ringPosition = a.ringPosition + 1
          \/ a.ring = 1 /\ a.ringPosition = 4 /\ b.ring = 2 /\ b.ringPosition = 0
    \/ /\ b.majorFace = a.majorFace + 1
       /\ a.ring \in {1, 2}
       /\ a.ringPosition = 4
       /\ b.ring = 0

\* The faces of fs are in emission order from the centre of major face 0 on, with
\* ids increasing by exactly 1.
EmissionOrder(fs) ==
    /\ fs # <<>> => fs[1].majorFace = 0 /\ fs[1].ring = 0
    /\ \A i \in 1..(Len(fs) - 1) :
           /\ EmittedAfter(fs[i], fs[i + 1])
           /\ fs[i + 1].id = fs[i].id + 1

\* C14: in the full model the faces are in emission order, while they are pushed
\* and in every returned geometry: grouped by majorFace ascending 0..11; within a
\* major face the centre cell first, then the inner cells with ringPosition
\* 0,1,2,3,4 in that order, then, when present, the outer cells with ringPosition
\* 0,1,2,3,4 in that order; ids increase by exactly 1 along this order.
C14_EmissionOrder ==
    /\ pc \in {"faces", "neighbors"} => EmissionOrder(faces)
    /\ Idle => \A k \in ReturnedBy("full") :
                   LET fs == returned[k].faces
                   IN  /\ EmissionOrder(fs)
                       /\ fs[Len(fs)].majorFace = 11
                       /\ fs[Len(fs)].ringPosition = 4

\* C14 witness: a full geometry has been returned in which an outer ring follows
\* an inner ring and the centre of major face 1 follows the inner ring of major
\* face 0.
C14_Witness ==
    \E k \in ReturnedBy("full") :
        LET fs == returned[k].faces
        IN  /\ fs[6].majorFace = 0 /\ fs[7].majorFace = 1 /\ fs[7].ring = 0
            /\ \E i \in 1..(Len(fs) - 1) : fs[i].ring = 1 /\ fs[i + 1].ring = 2

\* The adjacency rule on an array of faces whose neighbours have been computed:
\* for distinct faces a and b, b's id is in a.neighbors exactly when their centres
\* are less than 1.5 apart; a face is not its own neighbour; no id occurs twice.
AdjacencyRule(fs) ==
    \A a \in 1..Len(fs) :
        LET recorded == Range(fs[a].neighbors)
        IN  /\ PairwiseDistinct(fs[a].neighbors)
            /\ fs[a].id \notin recorded
            /\ \A b \in 1..Len(fs) :
                   a # b => (fs[b].id \in recorded
                             <=> Distance(fs[a].center, fs[b].center) < 1500)

\* calculateNeighbors has visited every face of its array.
NeighborsDone == pc = "neighbors" /\ nIndex = Len(faces)

\* C15: once calculateNeighbors has run over its array, and in every returned full
\* geometry, for every pair of distinct faces A and B, B's id is in A.neighbors if
\* and only if the distance between A.center and B.center is strictly less than
\* 1.5; a pair at distance exactly 1.5 or more is not recorded, and no id is
\* recorded twice in one neighbors list.
C15_AdjacencyRule ==
    /\ NeighborsDone => AdjacencyRule(faces)
    /\ Idle => \A k \in ReturnedBy("full") : AdjacencyRule(returned[k].faces)

\* C15 witness: calculateNeighbors has run over faces of which two are exactly 1.5
\* apart, and not neighbours, and two are less than 1.5 apart, and neighbours.
C15_Witness ==
    /\ NeighborsDone
    /\ \E a, b \in 1..Len(faces) :
           /\ Distance(faces[a].center, faces[b].center) = 1500
           /\ faces[b].id \notin Range(faces[a].neighbors)
    /\ \E a, b \in 1..Len(faces) :
           /\ a # b
           /\ Distance(faces[a].center, faces[b].center) = 1499
           /\ faces[b].id \in Range(faces[a].neighbors)

\* The placement of one ring cell about its major face's anchor: the offset from
\* the anchor's centre has z = 0 and the ring's length (0.48 for ring 1, 0.8 for
\* ring 2), and points at 72 degrees x ringPosition in the x/y plane; the normal
\* is the anchor's.
RingPlacement(face) ==
    LET anchor == generateMajorFaces[face.majorFace + 1]
        offset == Minus(face.center, anchor.center)
        length == IF face.ring = 1 THEN 480 ELSE 800
    IN  /\ offset.z = 0
        /\ face.center.z = anchor.center.z
        /\ Within(VectorLength(offset), length, 1)
        /\ offset.x = FMul(Cos5(face.ringPosition), length)
        /\ offset.y = FMul(Sin5(face.ringPosition), length)
        /\ face.normal = anchor.normal

ColoredByMajorFace(cs, fs) ==
    /\ Len(cs) = Len(fs)
    /\ \A k \in 1..Len(fs) : cs[k] = colorMap[(fs[k].majorFace % 12) + 1]
    /\ \A j, k \in 1..Len(fs) : (cs[j] = cs[k]) <=> (fs[j].majorFace = fs[k].majorFace)

\* The step in which the full-model getSolvedStateColors() returns: `faces` holds
\* the faces of the geometry it has just generated.
SolvedFullReturns == pc = "neighbors" /\ caller = "solved" /\ pc' = "idle"

\* C17, the step: what the full-model getSolvedStateColors() returns is coloured
\* by major face over the faces of its freshly generated geometry.
C17_Returns == SolvedFullReturns => ColoredByMajorFace(solved'.colors, faces)

\* C17, the result kept: a full-model result has one entry per generated face and
\* nothing but colorMap colours.
C17_Result ==
    (solved # NULL /\ solved.model = "full") =>
        /\ Len(solved.colors) = FullFaceCount
        /\ Range(solved.colors) = Range(colorMap)

\* C17: the full-model getSolvedStateColors() assigns colours by major face: its
\* result has one entry per face of a freshly generated full geometry, entry k is
\* colorMap[faces[k].majorFace mod 12], so all cells of one major face get the
\* same colour and cells of different major faces get different colours.
C17_ColorsByMajorFace == [](C17_Result) /\ [][C17_Returns]_vars

\* C17 witness: the full-model getSolvedStateColors() has returned, and its first
\* and last entries differ.
C17_Witness ==
    /\ solved # NULL
    /\ solved.model = "full"
    /\ solved.colors[1] # solved.colors[Len(solved.colors)]
    /\ solved.colors[1] = solved.colors[6]

\* ======================================================================
\* Properties of the page and its renderer
\* ======================================================================

\* C18 (as claimed): click-to-paint targets the face that was clicked: after a
\* click that hit triangle t of the mesh, the face index the handler painted and
\* reported, floor(t/2), is the material index the renderer gave to triangle t,
\* floor(t/10) mod 12.
C18_PaintsClickedFace ==
    hit # NoHit =>
        /\ selectedFace = groups[hit + 1]
        /\ hit \div 2 = (hit \div 10) % 12

\* C19 (as claimed): after any sequence of clicks, every face index passed to
\* onFaceClick and stored in selectedFace is in 0..11, and currentColors still has
\* exactly 12 entries, one per material.
C19_FaceIndexInRange ==
    /\ selectedFace # NoFace => selectedFace \in 0..11
    /\ pageSelectedFace # NoFace => pageSelectedFace \in 0..11
    /\ Len(currentColors) = 12
    /\ loaded => Len(currentColors) = Len(textures)

\* The step is a click that hit the mesh.
HitStep == clicks' = clicks + 1 /\ hit' # NoHit

\* C20, the click: a click that hits the mesh at face index f (f = floor(t/2) for
\* the triangle t hit) sets currentColors[f] to the page's selected colour, leaves
\* every other entry of currentColors as it was, calls onFaceClick exactly once,
\* with f, and leaves the page's and the renderer's selectedFace at f.
C20_Click ==
    HitStep =>
        LET f == hit' \div 2
        IN  /\ Entry(currentColors', f) = pageSelectedColor
            /\ \A j \in 0..(2 * faceCount) :
                   j # f => Entry(currentColors', j) = Entry(currentColors, j)
            /\ reported' = reported + 1
            /\ pageSelectedFace' = f
            /\ selectedFace' = f
            /\ pageSelectedColor' = pageSelectedColor

\* C20, the palette: a step that selects a palette colour handles no click and
\* changes neither currentColors nor a selectedFace, and no other step changes the
\* selected colour.
C20_Palette ==
    (pageSelectedColor' # pageSelectedColor \/ paletteUsed' # paletteUsed) =>
        /\ paletteUsed'
        /\ clicks' = clicks
        /\ reported' = reported
        /\ currentColors' = currentColors
        /\ selectedFace' = selectedFace
        /\ pageSelectedFace' = pageSelectedFace

ClickStep == clicks' = clicks + 1

\* C21: a click handled before the face-overlay import has resolved and created
\* the mesh, or while no onFaceClick is supplied, changes nothing: currentColors
\* and selectedFace keep their values, no material texture is updated and
\* onFaceClick is not called (nor anything else of the renderer or its parent
\* changed), however the clicks are interleaved with the import's completion.
C21_EarlyClickIgnored ==
    [][(ClickStep /\ (~loaded \/ ~onFaceClick)) =>
           /\ currentColors' = currentColors
           /\ selectedFace' = selectedFace
           /\ textures' = textures
           /\ reported' = reported
           /\ pageSelectedFace' = pageSelectedFace
           /\ hit' = hit
           /\ loaded' = loaded
           /\ groups' = groups]_vars

\* C21 witness: clicks have been handled before the import resolved, with an
\* onFaceClick supplied, and nothing has been painted or reported.
C21_Witness ==
    /\ ~loaded
    /\ onFaceClick
    /\ clicks = 2
    /\ reported = 0
    /\ selectedFace = NoFace
    /\ currentColors = getDefaultColors

\* The step handles a mouse event of the given type.
MouseStep(type) == mouseEvents' = mouseEvents + 1 /\ event' = type

\* The stored rotation and the mesh's rotation.
Rotations == <<rotationX, rotationY, meshRotationX, meshRotationY>>

\* C22, when: the stored rotation and the mesh rotation change only in a mouse-move
\* step taken while the button is held and the mesh exists.
C22_OnlyHeldMove ==
    Rotations' # Rotations => MouseStep("mousemove") /\ isMouseDown /\ loaded

\* C22, how much: a mouse-move with the button held and the mesh in place adds 0.01
\* x the pointer delta since the previous handled position (x to rotationY, y to
\* rotationX), sets the mesh's rotation to the stored one, and makes the pointer's
\* position the handled one.
C22_HeldMove ==
    (MouseStep("mousemove") /\ isMouseDown /\ loaded) =>
        /\ rotationY' = rotationY + 10 * (pointerX' - lastX)
        /\ rotationX' = rotationX + 10 * (pointerY' - lastY)
        /\ meshRotationX' = rotationX'
        /\ meshRotationY' = rotationY'
        /\ lastX' = pointerX'
        /\ lastY' = pointerY'

\* C22, held: the button is held from a mouse-down, which records the pointer's
\* position as the handled one, to the next mouse-up or mouse-leave; no other step
\* changes whether it is held, and no step but a mouse-down or a move that rotates
\* changes the handled position.
C22_Held ==
    /\ MouseStep("mousedown") =>
           isMouseDown' /\ lastX' = pointerX' /\ lastY' = pointerY'
    /\ (MouseStep("mouseup") \/ MouseStep("mouseleave")) => ~isMouseDown'
    /\ isMouseDown' # isMouseDown =>
           \/ MouseStep("mousedown")
           \/ MouseStep("mouseup")
           \/ MouseStep("mouseleave")
    /\ <<lastX, lastY>>' # <<lastX, lastY>> =>
           \/ MouseStep("mousedown")
           \/ MouseStep("mousemove") /\ isMouseDown /\ loaded

\* C22, released: a mouse-move with the button released changes nothing of the
\* renderer or its parent.
C22_ReleasedMove ==
    (MouseStep("mousemove") /\ ~isMouseDown) =>
        /\ UNCHANGED <<isMouseDown, lastX, lastY, rotationX, rotationY,
                       meshRotationX, meshRotationY>>
        /\ UNCHANGED paintVars

\* C22: the stored rotation and the mesh rotation (equal at all times) change only
\* on a mouse-move received while the button is held, that is, after a mouse-down
\* and before the next mouse-up or mouse-leave, and only once the mesh exists;
\* each such move adds 0.01 x the pointer delta since the previous handled
\* position.  Mouse-down, mouse-up, mouse-leave and click never change the
\* rotation, and a mouse-move with the button released changes no state at all.
C22_DragRotation ==
    /\ [](meshRotationX = rotationX /\ meshRotationY = rotationY)
    /\ [][C22_OnlyHeldMove /\ C22_HeldMove /\ C22_Held /\ C22_ReleasedMove]_vars

\* C22 witness: the mesh has been dragged about both axes, the button released,
\* and a further mouse-move elsewhere has left the rotation as it was.
C22_Witness ==
    /\ loaded
    /\ rotationX # 0
    /\ rotationY # 0
    /\ meshRotationX = rotationX
    /\ meshRotationY = rotationY
    /\ ~isMouseDown
    /\ event = "mousemove"
    /\ <<pointerX, pointerY>> # <<lastX, lastY>>

\* ======================================================================
\* The init effect's cleanup
\* ======================================================================

\* Every material the import's callback created has been disposed.
MaterialsReleased == loaded => materialsDisposed

\* C23: once the effect cleanup has run it has raised no error, the pending
\* animation frame is cancelled, the canvas is removed from the mount node, and
\* the renderer, every material created for the mesh and the geometry are
\* disposed, whether the import resolved before the cleanup or after it.
C23_CleanupCompletes ==
    ~mounted =>
        /\ cleanupError = "none"
        /\ ~framePending
        /\ ~canvasAttached
        /\ rendererDisposed
        /\ MaterialsReleased
        /\ geometryDisposed

====
